---- MODULE Spec2Model ----
(***************************************************************************)
(* Model of the content-rating pipeline of app.py: fetch_html, the regex   *)
(* extractors, parse_common, the rubric scorers and evaluate.              *)
(*                                                                         *)
(* Representation.                                                         *)
(*  - A Python str is a sequence of characters; a character is a TLA+      *)
(*    string atom.  Hangul syllables are written romanised in capitals     *)
(*    ("CHEO", "EUM") because the module is ASCII; each atom is still ONE  *)
(*    character.                                                           *)
(*  - A Python float is an exact rational <<n, d>> in lowest terms, d > 0. *)
(*    math.log10 is a table in units of 10^-6.  Binary floating point      *)
(*    departs from the exact value only where a scorer's exact sum is an   *)
(*    odd multiple of 1/4 built from 0.1 or 0.2 steps (4.6 - 0.85, say);   *)
(*    no page or argument of this model produces such a sum.               *)
(*  - None is NoneVal (-1) for the optional integers.                      *)
(*  - A dict with a fixed key order is a key sequence plus a function.     *)
(*  - An HTML document is a sequence of lexical elements (tags, text runs, *)
(*    JSON-LD blocks); RawHtml spells it out as characters, and each       *)
(*    regular expression of the source is an operator that says what it    *)
(*    matches there and what it captures.                                  *)
(***************************************************************************)
EXTENDS Integers, Sequences, FiniteSets, TLC

VARIABLES
    pc,            \* position of evaluate: "requests", "urllib", "fetched", "done", or a unit-call position
    attempt,       \* index of the next attempt in fetch_html's attempts list
    notes,         \* fetch_html's notes list
    html_text,     \* the HTML fetch_html returned
    tried,         \* the attempts fetch_html has made, in order
    content_type,  \* the content-type tag given to evaluate
    result,        \* the EvalResult evaluate returned (NoResult before)
    has_requests,  \* whether "import requests" succeeded (requests is not None)
    arg,           \* argument of a direct call of a pure function
    ret            \* value that call returned

vars == <<pc, attempt, notes, html_text, tried, content_type, result, has_requests, arg, ret>>

NoneVal == -1

(***************************************************************************)
(* Exact arithmetic                                                        *)
(***************************************************************************)
Abs(n) == IF n < 0 THEN 0 - n ELSE n

RECURSIVE GCD(_, _)
GCD(a, b) == IF b = 0 THEN a ELSE GCD(b, a % b)

LCM(a, b) == (a \div GCD(a, b)) * b

Rat(n, d) == LET g == GCD(Abs(n), d) IN <<n \div g, d \div g>>

Int2Rat(n) == <<n, 1>>

RAdd(a, b) == LET d == LCM(a[2], b[2])
              IN Rat(a[1] * (d \div a[2]) + b[1] * (d \div b[2]), d)

RSub(a, b) == RAdd(a, <<0 - b[1], b[2]>>)

RMul(a, b) == LET g1 == GCD(Abs(a[1]), b[2])
                  g2 == GCD(Abs(b[1]), a[2])
              IN Rat((a[1] \div g1) * (b[1] \div g2), (a[2] \div g2) * (b[2] \div g1))

RLeq(a, b) == LET d == LCM(a[2], b[2])
              IN a[1] * (d \div a[2]) <= b[1] * (d \div b[2])

RLt(a, b) == RLeq(a, b) /\ a # b

RMin(a, b) == IF RLeq(a, b) THEN a ELSE b

RMax(a, b) == IF RLeq(a, b) THEN b ELSE a

RECURSIVE RSum(_)
RSum(s) == IF s = <<>> THEN <<0, 1>> ELSE RAdd(Head(s), RSum(Tail(s)))

\* variant: ties rounded up, as round() does not
PyRoundHalfUp(x) ==
    LET q == x[1] \div x[2]
        r == x[1] % x[2]
    IN IF 2 * r < x[2] THEN q ELSE q + 1

\* Python's round(x) for a float x >= 0: nearest integer, ties to the even one.
PyRound(x) ==
    LET q == x[1] \div x[2]
        r == x[1] % x[2]
    IN IF 2 * r < x[2] THEN q
       ELSE IF 2 * r > x[2] THEN q + 1
       ELSE IF q % 2 = 0 THEN q ELSE q + 1

\* variant: no clamping
clamp_none(value) == value

clamp_1_5(value) == RMax(<<1, 1>>, RMin(<<5, 1>>, value))

round_half(value) == Rat(PyRound(RMul(value, <<2, 1>>)), 2)

\* math.log10 on the integers the model feeds it, in units of 10^-6
\* (rounded to nearest); exact at the powers of ten.
Log10Unit == 1000000

Log10Table ==
    (1 :> 0) @@ (2 :> 301030) @@ (9 :> 954243) @@ (10 :> 1000000)
    @@ (99 :> 1995635) @@ (100 :> 2000000) @@ (101 :> 2004321)
    @@ (316 :> 2499687) @@ (317 :> 2501059) @@ (1000 :> 3000000)
    @@ (1001 :> 3000434)

log10(n) == Rat(Log10Table[n], Log10Unit)

PyMaxInt(a, b) == IF a >= b THEN a ELSE b

PyMinInt(a, b) == IF a <= b THEN a ELSE b

(***************************************************************************)
(* Strings                                                                 *)
(***************************************************************************)
Digits == {"0", "1", "2", "3", "4", "5", "6", "7", "8", "9"}

Letters == {"a", "b", "c", "d", "e", "f", "g", "h", "i", "j", "k", "l", "m",
            "n", "o", "p", "q", "r", "s", "t", "u", "v", "w", "x", "y", "z"}

\* Hangul syllables (U+AC00..U+D7A3), romanised in capitals; one atom is one character.
Hangul == {"JANG", "JEOM", "DAN", "BI", "GYO", "GEUN", "GEO", "SU", "CHI", "HU",
           "GI", "GAE", "IN", "JEOK", "JU", "GWAN", "GAEK", "JEO", "JE", "GA",
           "NA", "NEUN", "NAE", "CHEO", "EUM", "MEON", "DA", "GEU", "RI", "GO",
           "GYEOL", "RON", "JEONG", "MA", "JI", "MAK", "CHUL", "TONG", "GYE",
           "GONG", "SIK", "JA", "RYO", "PO", "TEU", "NON", "MUN", "MUL", "SEL",
           "KA", "JO", "A", "YO", "DAET", "GEUL", "NYEON"}

\* Hangul compatibility jamo (U+3131..U+3163), e.g. the "kkk" of chat text.
Jamo == {"kiyeok", "hieut", "yu"}

SpaceChars == {" ", "\n"}

DigitValue == [c \in Digits |->
    CASE c = "0" -> 0 [] c = "1" -> 1 [] c = "2" -> 2 [] c = "3" -> 3 [] c = "4" -> 4
      [] c = "5" -> 5 [] c = "6" -> 6 [] c = "7" -> 7 [] c = "8" -> 8 [] c = "9" -> 9]

SeqToSet(xs) == {xs[i] : i \in 1..Len(xs)}

\* the sequence f as an explicit tuple (same value, evaluated once)
AsSeq(f) == SubSeq(f, 1, Len(f))

\* s * n
Rep(s, n) == AsSeq([k \in 1..(n * Len(s)) |-> s[((k - 1) % Len(s)) + 1]])

RECURSIVE lstrip(_)
lstrip(s) == IF s # <<>> /\ Head(s) \in SpaceChars THEN lstrip(Tail(s)) ELSE s

RECURSIVE rstrip(_)
rstrip(s) == IF s # <<>> /\ s[Len(s)] \in SpaceChars
             THEN rstrip(SubSeq(s, 1, Len(s) - 1)) ELSE s

\* str.strip()
strip(s) == rstrip(lstrip(s))

RECURSIVE lstrip_hash(_)
\* str.lstrip("#")
lstrip_hash(s) == IF s # <<>> /\ Head(s) = "#" THEN lstrip_hash(Tail(s)) ELSE s

\* s[i..] starts with pat
StartsAt(s, i, pat) ==
    /\ i + Len(pat) - 1 <= Len(s)
    /\ \A k \in 1..Len(pat) : s[i + k - 1] = pat[k]

\* pat in s
Contains(s, pat) == \E i \in 1..Len(s) : StartsAt(s, i, pat)

\* length of the maximal run of characters of class cls starting at s[i]
RunLen(s, i, cls) ==
    IF i > Len(s) THEN 0
    ELSE (CHOOSE j \in i..(Len(s) + 1) :
             /\ j = Len(s) + 1 \/ s[j] \notin cls
             /\ \A k \in i..(j - 1) : s[k] \in cls) - i

\* re.findall: leftmost non-overlapping matches; ml[i] is the length of the
\* match that starts at i (0: none).
RECURSIVE CountMatches(_, _)
CountMatches(ml, i) ==
    IF \A j \in i..Len(ml) : ml[j] = 0 THEN 0
    ELSE LET first == CHOOSE j \in i..Len(ml) : ml[j] > 0 /\ \A k \in i..(j - 1) : ml[k] = 0
         IN 1 + CountMatches(ml, first + ml[first])

\* length of the first alternative of alts (in order) that matches at s[i], else 0
RECURSIVE AltLen(_, _, _)
AltLen(s, i, alts) ==
    IF alts = <<>> THEN 0
    ELSE IF StartsAt(s, i, Head(alts)) THEN Len(Head(alts))
    ELSE AltLen(s, i, Tail(alts))

\* len(re.findall("(a|b|...)", s))
CountAlt(s, alts) == CountMatches(AsSeq([i \in 1..Len(s) |-> AltLen(s, i, alts)]), 1)

\* sum(1 for w in words if w in s)
RECURSIVE CountContained(_, _)
CountContained(s, words) ==
    IF words = <<>> THEN 0
    ELSE (IF Contains(s, Head(words)) THEN 1 ELSE 0) + CountContained(s, Tail(words))

\* length of the maximal run of non-space characters starting at s[i]
NonSpaceRun(s, i) == RunLen(s, i, SeqToSet(s) \ SpaceChars)

\* len(s.split())
RECURSIVE WordCount(_)
WordCount(s) ==
    LET t == lstrip(s)
    IN IF t = <<>> THEN 0
       ELSE 1 + WordCount(SubSeq(t, NonSpaceRun(t, 1) + 1, Len(t)))

\* re.split(r"[.!?]+", text): the fragments between the delimiter runs
SentenceDelims == {".", "!", "?"}

RECURSIVE re_split_sentences(_)
re_split_sentences(s) ==
    LET n == RunLen(s, 1, SeqToSet(s) \ SentenceDelims)     \* the fragment
        d == RunLen(s, n + 1, SentenceDelims)               \* the delimiter run after it
    IN IF d = 0 THEN <<s>>
       ELSE <<SubSeq(s, 1, n)>> \o re_split_sentences(SubSeq(s, n + d + 1, Len(s)))

RECURSIVE SumLen(_)
\* sum(len(s) for s in ss), by halves
SumLen(ss) ==
    IF ss = <<>> THEN 0
    ELSE IF Len(ss) = 1 THEN Len(ss[1])
    ELSE LET h == Len(ss) \div 2
         IN SumLen(SubSeq(ss, 1, h)) + SumLen(SubSeq(ss, h + 1, Len(ss)))

\* variant: every non-empty fragment counts as a sentence
KeepNonEmptySentences(ss) ==
    SelectSeq(AsSeq([i \in 1..Len(ss) |-> strip(ss[i])]), LAMBDA x : Len(x) >= 1)

RECURSIVE KeepSentences(_)
\* [s.strip() for s in sentences if len(s.strip()) >= 2]
KeepSentences(ss) ==
    IF ss = <<>> THEN <<>>
    ELSE (IF Len(strip(Head(ss))) >= 2 THEN <<strip(Head(ss))>> ELSE <<>>)
         \o KeepSentences(Tail(ss))

\* sentence_stats(text) -> <<sentence count, average sentence length>>
sentence_stats(text) ==
    IF text = <<>> THEN <<0, <<0, 1>>>>
    ELSE LET sentences == KeepSentences(re_split_sentences(text))
         IN IF sentences = <<>> THEN <<0, <<0, 1>>>>
            ELSE <<Len(sentences), Rat(SumLen(sentences), Len(sentences))>>

(***************************************************************************)
(* Rubric scorers                                                          *)
(***************************************************************************)
IsSized(img) == /\ img.width # NoneVal /\ img.height # NoneVal
                /\ img.width >= 500 /\ img.height >= 500

HasAlt(img) == img.alt # <<>>

score_image_quality(images) ==
    IF images = <<>> THEN <<2, 1>>
    ELSE LET n           == Len(images)
             count_score == RMin(<<2, 1>>, Rat(n, 5))
             sized       == Cardinality({i \in 1..Len(images) : IsSized(images[i])})
             with_alt    == Cardinality({i \in 1..Len(images) : HasAlt(images[i])})
             size_score  == RMin(<<3, 2>>, RMul(Rat(sized, PyMaxInt(1, n)), <<3, 2>>))
             alt_score   == RMin(<<3, 2>>, RMul(Rat(with_alt, PyMaxInt(1, n)), <<3, 2>>))
         IN clamp_1_5(RAdd(RAdd(RAdd(<<1, 1>>, count_score), size_score), alt_score))

objectivity_keywords ==
    << <<"JANG", "JEOM">>, <<"DAN", "JEOM">>, <<"BI", "GYO">>, <<"GEUN", "GEO">>,
       <<"SU", "CHI">>, <<"HU", "GI">>, <<"GAE", "IN", "JEOK">>, <<"JU", "GWAN">>,
       <<"GAEK", "GWAN">> >>

first_person_words == << <<"JEO">>, <<"JE", "GA">>, <<"NA", "NEUN">>, <<"NAE", "GA">> >>

score_blog_sincerity_objectivity(text, links) ==
    IF text = <<>> THEN <<2, 1>>
    ELSE LET keyword_hits  == CountContained(text, objectivity_keywords)
             keyword_score == RMin(<<2, 1>>, Rat(keyword_hits, 4))
             link_score    == RMin(<<1, 1>>, Rat(links, 5))
             hits          == CountAlt(text, first_person_words)
             denom         == RMax(<<1, 1>>, Rat(Len(text), 50))
             \* 0.2 <= hits / denom <= 2.5
             balanced      == /\ RLeq(RMul(<<1, 5>>, denom), <<hits, 1>>)
                              /\ RLeq(<<hits, 1>>, RMul(<<5, 2>>, denom))
             balance_score == IF balanced THEN <<1, 1>> ELSE <<3, 5>>
         IN clamp_1_5(RAdd(RAdd(RAdd(<<6, 5>>, keyword_score), link_score), balance_score))

structure_words ==
    << <<"CHEO", "EUM">>, <<"MEON", "JEO">>, <<"DA", "EUM">>, <<"GEU", "RI", "GO">>,
       <<"GYEOL", "RON">>, <<"JEONG", "RI">>, <<"MA", "JI", "MAK">> >>

score_blog_narrative(text) ==
    LET st             == sentence_stats(text)
        sentence_count == st[1]
        avg_len        == st[2]
    IN IF sentence_count = 0 THEN <<9, 5>>
       ELSE LET structure_hits  == CountContained(text, structure_words)
                sentence_score  == IF 6 <= sentence_count /\ sentence_count <= 80
                                   THEN <<1, 1>> ELSE <<3, 5>>
                length_score    == IF RLeq(<<20, 1>>, avg_len) /\ RLeq(avg_len, <<70, 1>>)
                                   THEN <<6, 5>> ELSE <<7, 10>>
                structure_score == RMin(<<9, 5>>, Rat(structure_hits * 7, 20))
            IN clamp_1_5(RAdd(RAdd(RAdd(<<1, 1>>, sentence_score), length_score), structure_score))

\* r"\\s{2,}" as written: a backslash followed by two or more "s"
WeirdSpaceLen(s, i) ==
    IF s[i] = "\\" /\ RunLen(s, i + 1, {"s"}) >= 2 THEN 1 + RunLen(s, i + 1, {"s"}) ELSE 0

\* r"[!?.,]{3,}"
RepeatedPunctLen(s, i) ==
    IF RunLen(s, i, {"!", "?", ".", ","}) >= 3 THEN RunLen(s, i, {"!", "?", ".", ","}) ELSE 0

\* a run of three or more compatibility jamo
TypoLikeLen(s, i) == IF RunLen(s, i, Jamo) >= 3 THEN RunLen(s, i, Jamo) ELSE 0

score_blog_spelling(text) ==
    IF text = <<>> THEN <<11, 5>>
    ELSE LET idx            == 1..Len(text)
             weird_spaces   == CountMatches(AsSeq([i \in idx |-> WeirdSpaceLen(text, i)]), 1)
             repeated_punct == CountMatches(AsSeq([i \in idx |-> RepeatedPunctLen(text, i)]), 1)
             typo_like      == CountMatches(AsSeq([i \in idx |-> TypoLikeLen(text, i)]), 1)
             penalties      == RAdd(RAdd(Rat(weird_spaces, 10), Rat(repeated_punct, 4)),
                                    Rat(typo_like, 4))
             base           == RSub(<<23, 5>>, RMin(<<16, 5>>, penalties))
         IN clamp_1_5(base)

\* r"20\\d{2}[./NYEON-]\\s?\\d{1,2}" as written: "20", a backslash, "dd", one
\* separator, a backslash, an optional "s", a backslash, one or two "d"
DateHitLen(s, i) ==
    LET j == i + 6     \* position after the separator
        k == IF j + 1 <= Len(s) /\ s[j + 1] = "s" THEN j + 2 ELSE j + 1
    IN IF /\ StartsAt(s, i, <<"2", "0", "\\", "d", "d">>)
          /\ i + 5 <= Len(s) /\ s[i + 5] \in {".", "/", "NYEON", "-"}
          /\ j <= Len(s) /\ s[j] = "\\"
          /\ k <= Len(s) /\ s[k] = "\\"
          /\ RunLen(s, k + 1, {"d"}) >= 1
       THEN (k + PyMinInt(2, RunLen(s, k + 1, {"d"}))) - i + 1
       ELSE 0

\* r"\\d+[.,]?\\d*" as written: a backslash, one or more "d", an optional
\* "." or ",", a backslash, any number of "d"
NumberHitLen(s, i) ==
    LET n == RunLen(s, i + 1, {"d"})
        j == i + 1 + n     \* position after the "d" run
        k == IF j <= Len(s) /\ s[j] \in {".", ","} THEN j + 1 ELSE j
    IN IF s[i] = "\\" /\ n >= 1 /\ k <= Len(s) /\ s[k] = "\\"
       THEN (k + RunLen(s, k + 1, {"d"})) - i + 1
       ELSE 0

source_words ==
    << <<"CHUL", "CHEO">>, <<"TONG", "GYE">>, <<"GONG", "SIK">>, <<"JA", "RYO">>,
       <<"RI", "PO", "TEU">>, <<"NON", "MUN">> >>

score_blog_factuality(text, links) ==
    IF text = <<>> THEN <<2, 1>>
    ELSE LET idx            == 1..Len(text)
             date_hits      == CountMatches(AsSeq([i \in idx |-> DateHitLen(text, i)]), 1)
             number_hits    == CountMatches(AsSeq([i \in idx |-> NumberHitLen(text, i)]), 1)
             source_hits    == CountContained(text, source_words)
             evidence_score == RMin(<<5, 2>>, RAdd(RAdd(Rat(date_hits, 2), Rat(number_hits, 20)),
                                                   Rat(source_hits, 2)))
             link_score     == RMin(<<1, 1>>, Rat(links, 5))
         IN clamp_1_5(RAdd(RAdd(<<1, 1>>, evidence_score), link_score))

score_insta_subject(images) == score_image_quality(images)

portrait_words ==
    << <<"p", "o", "r", "t", "r", "a", "i", "t">>, <<"f", "a", "c", "e">>,
       <<"s", "e", "l", "f", "i", "e">>, <<"IN", "MUL">>, <<"SEL", "KA">> >>

HasRichAlt(img) == Len(img.alt) >= 8

\* variant: the fallback of the subject scorer (2.0) instead of 2.5
score_insta_appearance_as_subject(text, images) ==
    IF images = <<>> THEN <<2, 1>>
    ELSE clamp_1_5(RAdd(RAdd(<<2, 1>>,
                             RMin(<<3, 2>>, Rat(CountAlt(text, portrait_words) * 3, 10))),
                        RMin(<<3, 2>>, Rat(Cardinality({i \in 1..Len(images) : HasRichAlt(images[i])}), 4))))

score_insta_appearance(text, images) ==
    IF images = <<>> THEN <<5, 2>>
    ELSE LET portrait_clues == CountAlt(text, portrait_words)
             rich_alt       == Cardinality({i \in 1..Len(images) : HasRichAlt(images[i])})
         IN clamp_1_5(RAdd(RAdd(<<2, 1>>, RMin(<<3, 2>>, Rat(portrait_clues * 3, 10))),
                           RMin(<<3, 2>>, Rat(rich_alt, 4))))

IsShortTag(h) == Len(h) <= 3

score_insta_hashtag_rarity(hashtags) ==
    IF hashtags = <<>> THEN <<2, 1>>
    ELSE LET uniq            == Cardinality(SeqToSet(hashtags))
             avg_len         == Rat(SumLen(hashtags), Len(hashtags))
             short_generic   == Cardinality({i \in 1..Len(hashtags) : IsShortTag(hashtags[i])})
             uniq_score      == RMin(<<11, 5>>, RMul(Rat(uniq, PyMaxInt(1, Len(hashtags))), <<11, 5>>))
             len_score       == IF RLeq(<<6, 1>>, avg_len) THEN <<6, 5>> ELSE <<7, 10>>
             generic_penalty == RMin(<<6, 5>>, Rat(short_generic, 5))
         IN clamp_1_5(RSub(RAdd(RAdd(<<13, 10>>, uniq_score), len_score), generic_penalty))

\* variant: the fixed value as soon as either count is absent
score_insta_engagement_either_absent(likes, comments) ==
    IF likes = NoneVal \/ comments = NoneVal THEN <<3, 1>>
    ELSE clamp_1_5(RAdd(RAdd(<<1, 1>>,
                             RMin(<<2, 1>>, RMul(log10(PyMaxInt(1, likes)), <<4, 5>>))),
                        RMin(<<2, 1>>, log10(PyMaxInt(1, comments + 1)))))

score_insta_engagement(likes, comments) ==
    IF likes = NoneVal /\ comments = NoneVal THEN <<3, 1>>
    ELSE LET like_part    == IF likes = NoneVal THEN <<0, 1>>
                             ELSE RMin(<<2, 1>>, RMul(log10(PyMaxInt(1, likes)), <<4, 5>>))
             comment_part == IF comments = NoneVal THEN <<0, 1>>
                             ELSE RMin(<<2, 1>>, log10(PyMaxInt(1, comments + 1)))
         IN clamp_1_5(RAdd(RAdd(<<1, 1>>, like_part), comment_part))

(***************************************************************************)
(* HTML documents and the regex extractors                                 *)
(*                                                                         *)
(* A document is a sequence of elements:                                   *)
(*   [kind |-> "text", chars]     a run of character data                  *)
(*   [kind |-> "img",  markup, src, alt, width, height, srcset]            *)
(*   [kind |-> "a",    markup]    an anchor start tag with an href         *)
(*   [kind |-> "og",   content]   <meta property="og:image" content="..."> *)
(*   [kind |-> "jsonld", raw, objs, valid]  a JSON-LD script block: its    *)
(*        source text and what json.loads makes of it                      *)
(* markup = "html" is ordinary markup (<img src="a">); markup = "escaped"  *)
(* is markup that spells the backslash sequences the patterns of lines     *)
(* 108, 137 and 143 contain literally (<img\b src\=\"a">).  An attribute   *)
(* that is absent has the value <<>>.                                      *)
(***************************************************************************)
Q == "\""

\* the attribute name=value as it stands in the tag
AttrRaw(name, value, markup) ==
    IF value = <<>> THEN <<>>
    ELSE IF markup = "escaped"
         THEN <<" ">> \o name \o <<"\\", "=", "\\", Q>> \o value \o <<Q>>
         ELSE <<" ">> \o name \o <<"=", Q>> \o value \o <<Q>>

ImgTagRaw(e) ==
    <<"<", "i", "m", "g">> \o (IF e.markup = "escaped" THEN <<"\\", "b">> ELSE <<>>)
    \o AttrRaw(<<"s", "r", "c">>, e.src, e.markup)
    \o AttrRaw(<<"s", "r", "c", "s", "e", "t">>, e.srcset, e.markup)
    \o AttrRaw(<<"w", "i", "d", "t", "h">>, e.width, e.markup)
    \o AttrRaw(<<"h", "e", "i", "g", "h", "t">>, e.height, e.markup)
    \o AttrRaw(<<"a", "l", "t">>, e.alt, e.markup)
    \o <<">">>

AnchorTagRaw(e) ==
    <<"<", "a">> \o (IF e.markup = "escaped" THEN <<"\\", "b">> ELSE <<>>)
    \o <<" ", "h", "r", "e", "f", "=", Q, "u", Q, ">">>

OgTagRaw(e) ==
    <<"<", "m", "e", "t", "a", " ", "p", "r", "o", "p", "e", "r", "t", "y", "=", Q,
      "o", "g", ":", "i", "m", "a", "g", "e", Q, " ", "c", "o", "n", "t", "e", "n", "t",
      "=", Q>> \o e.content \o <<Q, ">">>

ScriptOpenRaw ==
    <<"<", "s", "c", "r", "i", "p", "t", " ", "t", "y", "p", "e", "=", Q, "a", "p", "p",
      "l", "i", "c", "a", "t", "i", "o", "n", "/", "l", "d", "+", "j", "s", "o", "n", Q, ">">>

ScriptCloseRaw == <<"<", "/", "s", "c", "r", "i", "p", "t", ">">>

\* the characters of the document
ElemRaw(e) ==
    CASE e.kind = "text"   -> e.chars
      [] e.kind = "img"    -> ImgTagRaw(e)
      [] e.kind = "a"      -> AnchorTagRaw(e)
      [] e.kind = "og"     -> OgTagRaw(e)
      [] e.kind = "jsonld" -> ScriptOpenRaw \o e.raw \o ScriptCloseRaw

RECURSIVE RawHtml(_)
RawHtml(doc) == IF doc = <<>> THEN <<>> ELSE ElemRaw(Head(doc)) \o RawHtml(Tail(doc))

\* re.sub(r"\\s+", " ", text) as written: a backslash followed by one or more
\* "s" is replaced by one space
sub_backslash_s(s) ==
    LET starts(i)  == s[i] = "\\" /\ i < Len(s) /\ s[i + 1] = "s"
        covered(i) == /\ s[i] = "s"
                      /\ \E j \in 1..(i - 1) : s[j] = "\\" /\ \A k \in (j + 1)..i : s[k] = "s"
        kept       == SelectSeq([i \in 1..Len(s) |-> i], LAMBDA i : ~covered(i))
    IN AsSeq([k \in 1..Len(kept) |-> IF starts(kept[k]) THEN " " ELSE s[kept[k]]])

\* what the tag removal of strip_tags leaves of an element: the script and
\* style patterns of lines 98-99 need "<script" followed only by "\", "s",
\* "S" up to "</script>" and match no element here; every tag becomes " "
ElemText(e) ==
    CASE e.kind = "text"   -> e.chars
      [] e.kind = "jsonld" -> <<" ">> \o e.raw \o <<" ">>
      [] OTHER             -> <<" ">>

RECURSIVE TagsRemoved(_)
TagsRemoved(doc) == IF doc = <<>> THEN <<>> ELSE ElemText(Head(doc)) \o TagsRemoved(Tail(doc))

strip_tags(doc) == strip(sub_backslash_s(TagsRemoved(doc)))

\* safe_int(value): None for None, "" and anything int() rejects
RECURSIVE DigitsToInt(_, _)
DigitsToInt(s, acc) ==
    IF s = <<>> THEN acc ELSE DigitsToInt(Tail(s), acc * 10 + DigitValue[Head(s)])

RemoveCommas(s) == SelectSeq(s, LAMBDA c : c # ",")

safe_int(value) ==
    LET v == strip(RemoveCommas(value))
    IN IF v # <<>> /\ \A i \in 1..Len(v) : v[i] \in Digits
       THEN DigitsToInt(v, 0) ELSE NoneVal

\* extract_attr(tag, attr): the pattern attr\\s*=\\s*["']...["'] as written
\* needs a backslash before "=" and before the quote
extract_attr(tag, attr) ==
    IF tag.markup = "escaped" /\ tag[attr] # <<>> THEN strip(tag[attr]) ELSE <<>>

\* chunk.strip().split(" ")[0].strip() for each chunk of srcset.split(",")
RECURSIVE SplitOn(_, _, _)
SplitOn(s, sep, cur) ==
    IF s = <<>> THEN <<cur>>
    ELSE IF Head(s) = sep THEN <<cur>> \o SplitOn(Tail(s), sep, <<>>)
    ELSE SplitOn(Tail(s), sep, Append(cur, Head(s)))

SrcsetPart(chunk) == strip(Head(SplitOn(strip(chunk), " ", <<>>)))

HasSrc(images, src) == \E i \in 1..Len(images) : images[i].src = src

RECURSIVE AddSrcset(_, _, _)
AddSrcset(images, chunks, alt) ==
    IF chunks = <<>> THEN images
    ELSE LET part == SrcsetPart(Head(chunks))
         IN AddSrcset(IF part # <<>> /\ ~HasSrc(images, part)
                      THEN Append(images, [src |-> part, alt |-> alt,
                                           width |-> NoneVal, height |-> NoneVal])
                      ELSE images,
                      Tail(chunks), alt)

\* re.findall(r"<img\\b[^>]*>", ...) as written: "<img" followed by a
\* backslash and "b"
ImgTags(doc) == SelectSeq(doc, LAMBDA e : e.kind = "img" /\ e.markup = "escaped")

RECURSIVE ScanImgTags(_, _)
ScanImgTags(tags, images) ==
    IF tags = <<>> THEN images
    ELSE LET tag    == Head(tags)
             src    == extract_attr(tag, "src")
             alt    == extract_attr(tag, "alt")
             width  == safe_int(extract_attr(tag, "width"))
             height == safe_int(extract_attr(tag, "height"))
             srcset == extract_attr(tag, "srcset")
             added  == Append(images, [src |-> src, alt |-> alt,
                                       width |-> width, height |-> height])
         IN IF src = <<>> THEN ScanImgTags(Tail(tags), images)
            ELSE ScanImgTags(Tail(tags),
                             IF srcset # <<>>
                             THEN AddSrcset(added, SplitOn(srcset, ",", <<>>), alt)
                             ELSE added)

OgImageCap == 20

OgImages(doc) ==
    LET tags == SelectSeq(doc, LAMBDA e : e.kind = "og" /\ e.content # <<>>)
    IN AsSeq([i \in 1..Len(tags) |-> tags[i].content])

RECURSIVE AddOgImages(_, _)
AddOgImages(images, srcs) ==
    IF srcs = <<>> THEN images
    ELSE AddOgImages(IF ~HasSrc(images, Head(srcs))
                     THEN Append(images, [src |-> Head(srcs), alt |-> <<>>,
                                          width |-> NoneVal, height |-> NoneVal])
                     ELSE images,
                     Tail(srcs))

parse_images(doc) ==
    LET og_images == OgImages(doc)
    IN AddOgImages(ScanImgTags(ImgTags(doc), <<>>),
                   SubSeq(og_images, 1, PyMinInt(OgImageCap, Len(og_images))))

\* len(re.findall(r"<a\\b[^>]*href=", ...)) as written
parse_links_count(doc) == Len(SelectSeq(doc, LAMBDA e : e.kind = "a" /\ e.markup = "escaped"))

WordChars == Letters \cup Digits \cup {"_"} \cup Hangul

HashtagMinLen == 2
HashtagMaxLen == 30

\* re.findall(r"#([A-Za-z0-9_HANGUL]{2,30})", text)
\* length of the match that starts at s[i], 0 when there is none
HashtagLen(s, i) ==
    IF s[i] = "#" /\ RunLen(s, i + 1, WordChars) >= HashtagMinLen
    THEN 1 + PyMinInt(HashtagMaxLen, RunLen(s, i + 1, WordChars)) ELSE 0

\* re.findall: a match holds no "#" after its first character, so no match
\* starts inside another and every position with a match is one of the
\* leftmost non-overlapping matches; the result is the captured groups
parse_hashtags(text) ==
    LET starts == SelectSeq(AsSeq([i \in 1..Len(text) |-> i]),
                            LAMBDA i : HashtagLen(text, i) > 0)
    IN AsSeq([k \in 1..Len(starts) |->
                 SubSeq(text, starts[k] + 1, starts[k] + HashtagLen(text, starts[k]) - 1)])

CountMaxGap == 15
CountMaxDigits == 9

NonDigitRun(s, i) == RunLen(s, i, SeqToSet(s) \ Digits)

\* the number the pattern key[^0-9]{0,15}([0-9]{1,9}) captures when it
\* matches at raw[i], else NoneVal
CountMatchAt(raw, i, key) ==
    IF ~StartsAt(raw, i, key) THEN NoneVal
    ELSE LET j   == i + Len(key)
             gap == NonDigitRun(raw, j)
             d   == RunLen(raw, j + gap, Digits)
         IN IF gap <= CountMaxGap /\ d >= 1
            THEN DigitsToInt(SubSeq(raw, j + gap, j + gap + PyMinInt(CountMaxDigits, d) - 1), 0)
            ELSE NoneVal

\* pat.search(html_text): the leftmost match
CountSearch(raw, key) ==
    LET hits == {i \in 1..Len(raw) : CountMatchAt(raw, i, key) # NoneVal}
    IN IF hits = {} THEN NoneVal
       ELSE CountMatchAt(raw, CHOOSE i \in hits : \A j \in hits : i <= j, key)

\* variant: the last key of the list that matches decides
extract_count_last_key(raw, keys) ==
    LET hit == {k \in 1..Len(keys) : CountSearch(raw, keys[k]) # NoneVal}
    IN IF hit = {} THEN NoneVal
       ELSE CountSearch(raw, keys[CHOOSE k \in hit : \A m \in hit : m <= k])

RECURSIVE extract_count(_, _)
extract_count(raw, keys) ==
    IF keys = <<>> THEN NoneVal
    ELSE IF CountSearch(raw, Head(keys)) # NoneVal THEN CountSearch(raw, Head(keys))
    ELSE extract_count(raw, Tail(keys))

\* the key lists of parse_common; the patterns ignore case and the model's
\* letters are lower case
LikeKeys ==
    << <<"l", "i", "k", "e", "_", "c", "o", "u", "n", "t">>, <<"l", "i", "k", "e", "s">>,
       <<"JO", "A", "YO">> >>

CommentKeys ==
    << <<"c", "o", "m", "m", "e", "n", "t", "_", "c", "o", "u", "n", "t">>,
       <<"c", "o", "m", "m", "e", "n", "t", "s">>, <<"DAET", "GEUL">> >>

LikeKeys2 ==
    << <<"e", "d", "g", "e", "_", "m", "e", "d", "i", "a", "_", "p", "r", "e", "v", "i",
         "e", "w", "_", "l", "i", "k", "e">>,
       <<"l", "i", "k", "e", "c", "o", "u", "n", "t">>,
       <<"r", "e", "a", "c", "t", "i", "o", "n", "_", "c", "o", "u", "n", "t">> >>

CommentKeys2 ==
    << <<"e", "d", "g", "e", "_", "m", "e", "d", "i", "a", "_", "t", "o", "_", "c", "o",
         "m", "m", "e", "n", "t">>,
       <<"c", "o", "m", "m", "e", "n", "t", "c", "o", "u", "n", "t">> >>

\* extract_json_ld_chunks: the dict members of every block json.loads accepts
RECURSIVE extract_json_ld_chunks(_)
extract_json_ld_chunks(doc) ==
    IF doc = <<>> THEN <<>>
    ELSE (IF Head(doc).kind = "jsonld" /\ strip(Head(doc).raw) # <<>> /\ Head(doc).valid
          THEN Head(doc).objs ELSE <<>>)
         \o extract_json_ld_chunks(Tail(doc))

RECURSIVE MergeCandidates(_, _)
MergeCandidates(text, cands) ==
    IF cands = <<>> THEN text
    ELSE LET c == Head(cands)
         IN MergeCandidates(IF strip(c) # <<>> /\ ~Contains(text, c)
                            THEN strip(text \o <<" ">> \o strip(c)) ELSE text,
                            Tail(cands))

RECURSIVE KeywordTags(_)
\* [w.strip().lstrip("#") for w in keywords.split(",") if w.strip()]
KeywordTags(ws) ==
    IF ws = <<>> THEN <<>>
    ELSE (IF strip(Head(ws)) # <<>> THEN <<lstrip_hash(strip(Head(ws)))>> ELSE <<>>)
         \o KeywordTags(Tail(ws))

\* the loop over the JSON-LD objects: <<text, hashtags>> after it
RECURSIVE MergeJsonLd(_, _, _)
MergeJsonLd(objs, text, hashtags) ==
    IF objs = <<>> THEN <<text, hashtags>>
    ELSE LET obj == Head(objs)
         IN MergeJsonLd(Tail(objs),
                        MergeCandidates(text, <<obj.articleBody, obj.caption, obj.description>>),
                        hashtags \o KeywordTags(SplitOn(obj.keywords, ",", <<>>)))

\* list(dict.fromkeys(xs)): first occurrences, in order
Dedupe(xs) ==
    LET firsts == SelectSeq([i \in 1..Len(xs) |-> i],
                            LAMBDA i : \A j \in 1..(i - 1) : xs[j] # xs[i])
    IN AsSeq([k \in 1..Len(firsts) |-> xs[firsts[k]]])

\* variant: the merged list as it is
KeepAllHashtags(hashtags) == hashtags

HashtagCap == 80

\* lines 245-246: drop entries shorter than 2, deduplicate, keep the first 80
NormalizeHashtags(hashtags) ==
    LET kept == SelectSeq(hashtags, LAMBDA h : Len(h) >= 2)
        uniq == Dedupe(kept)
    IN SubSeq(uniq, 1, PyMinInt(HashtagCap, Len(uniq)))

EmptyParsed ==
    [text |-> <<>>, links |-> 0, images |-> <<>>, hashtags |-> <<>>,
     likes |-> NoneVal, comments |-> NoneVal, json_ld_count |-> 0, word_count |-> 0]

parse_common(doc) ==
    LET raw == RawHtml(doc)
    IN IF raw = <<>> THEN EmptyParsed
       ELSE LET text0    == strip_tags(doc)
                json_ld  == extract_json_ld_chunks(doc)
                merged   == MergeJsonLd(json_ld, text0, parse_hashtags(text0))
                likes    == extract_count(raw, LikeKeys)
                comments == extract_count(raw, CommentKeys)
            IN [text          |-> merged[1],
                links         |-> parse_links_count(doc),
                images        |-> parse_images(doc),
                hashtags      |-> NormalizeHashtags(merged[2]),
                likes         |-> IF likes = NoneVal THEN extract_count(raw, LikeKeys2) ELSE likes,
                comments      |-> IF comments = NoneVal THEN extract_count(raw, CommentKeys2)
                                  ELSE comments,
                json_ld_count |-> Len(json_ld),
                word_count    |-> WordCount(merged[1])]

(***************************************************************************)
(* evaluate                                                                *)
(***************************************************************************)
\* the category names, in the order the dict literals list them
InstaCategories == <<"subject_quality", "appearance", "hashtag_rarity", "engagement">>

BlogCategories == <<"image_quality", "sincerity_objectivity", "narrative", "spelling", "factuality">>

InstaLabel == "instagram_feed"

BlogLabel == "naver_blog_posting"

score_label(score) ==
    IF RLeq(<<9, 2>>, score) THEN "very_good"
    ELSE IF RLeq(<<7, 2>>, score) THEN "good"
    ELSE IF RLeq(<<5, 2>>, score) THEN "fair"
    ELSE "needs_improvement"

\* build_item_review: the label and the score the review text shows
build_item_review(item, score) == [label |-> score_label(score), score |-> score]

build_blog_reviews(scores) ==
    [c \in SeqToSet(BlogCategories) |-> build_item_review(c, scores[c])]

build_insta_reviews(scores) ==
    [c \in SeqToSet(InstaCategories) |-> build_item_review(c, scores[c])]

\* the bullets of the overview, by their headings
build_blog_overview(parsed) == <<"title_description", "post_summary", "image_summary">>

build_insta_overview(parsed) == <<"key_phrase", "place", "appearance", "product_focus">>

\* min(scores, key=scores.get) / max(scores, key=scores.get): the first key,
\* in dict order, whose score no other key's score is below / above
FirstMin(keys, scores) ==
    keys[CHOOSE i \in 1..Len(keys) :
            /\ \A j \in 1..Len(keys) : RLeq(scores[keys[i]], scores[keys[j]])
            /\ \A j \in 1..(i - 1) : scores[keys[j]] # scores[keys[i]]]

\* variant: the last key, in dict order, with the highest score
LastMax(keys, scores) ==
    keys[CHOOSE i \in 1..Len(keys) :
            /\ \A j \in 1..Len(keys) : RLeq(scores[keys[j]], scores[keys[i]])
            /\ \A j \in (i + 1)..Len(keys) : scores[keys[j]] # scores[keys[i]]]

FirstMax(keys, scores) ==
    keys[CHOOSE i \in 1..Len(keys) :
            /\ \A j \in 1..Len(keys) : RLeq(scores[keys[j]], scores[keys[i]])
            /\ \A j \in 1..(i - 1) : scores[keys[j]] # scores[keys[i]]]

build_summary(label, avg, keys, scores) ==
    [tone      |-> IF RLeq(<<43, 10>>, avg) THEN "high"
                   ELSE IF RLeq(<<17, 5>>, avg) THEN "stable"
                   ELSE "needs_work",
     weakest   |-> FirstMin(keys, scores),
     strongest |-> FirstMax(keys, scores),
     label     |-> label]

\* sum(scores.values()) / len(scores)
MeanScore(keys, scores) ==
    RMul(RSum(AsSeq([i \in 1..Len(keys) |-> scores[keys[i]]])), <<1, Len(keys)>>)

InstaScores(parsed) ==
    [c \in SeqToSet(InstaCategories) |->
        CASE c = "subject_quality" -> round_half(score_insta_subject(parsed.images))
          [] c = "appearance"      -> round_half(score_insta_appearance(parsed.text, parsed.images))
          [] c = "hashtag_rarity"  -> round_half(score_insta_hashtag_rarity(parsed.hashtags))
          [] c = "engagement"      -> round_half(score_insta_engagement(parsed.likes, parsed.comments))]

BlogScores(parsed) ==
    [c \in SeqToSet(BlogCategories) |->
        CASE c = "image_quality"         -> round_half(score_image_quality(parsed.images))
          [] c = "sincerity_objectivity" ->
                 round_half(score_blog_sincerity_objectivity(parsed.text, parsed.links))
          [] c = "narrative"             -> round_half(score_blog_narrative(parsed.text))
          [] c = "spelling"              -> round_half(score_blog_spelling(parsed.text))
          [] c = "factuality"            ->
                 round_half(score_blog_factuality(parsed.text, parsed.links))]

\* variant: the empty tag also selects the social-feed rubric
IsInstagramOrEmpty(tag) == tag \in {"instagram", ""}

IsInstagram(tag) == tag = "instagram"

\* variant: an EvalResult that drops the notes of the fetch
EvalResultWithoutNotes(label, keys, scores, reviews, overview, average, summary, fetch_notes) ==
    [content_type |-> label, keys |-> keys, scores |-> scores, reviews |-> reviews,
     overview |-> overview, average |-> average, summary |-> summary, notes |-> <<>>]

\* the EvalResult dataclass (the url, which no score reads, is left out);
\* keys is the insertion order of the scores dict
EvalResult(label, keys, scores, reviews, overview, average, summary, fetch_notes) ==
    [content_type |-> label, keys |-> keys, scores |-> scores, reviews |-> reviews,
     overview |-> overview, average |-> average, summary |-> summary, notes |-> fetch_notes]

\* evaluate after fetch_html returned <<doc, fetch_notes>>
evaluate(tag, doc, fetch_notes) ==
    LET parsed == parse_common(doc)
    IN IF IsInstagram(tag)
       THEN LET scores == InstaScores(parsed)
                avg    == round_half(MeanScore(InstaCategories, scores))
            IN EvalResult(InstaLabel, InstaCategories, scores, build_insta_reviews(scores),
                          build_insta_overview(parsed), avg,
                          build_summary(InstaLabel, avg, InstaCategories, scores), fetch_notes)
       ELSE LET scores == BlogScores(parsed)
                avg    == round_half(MeanScore(BlogCategories, scores))
            IN EvalResult(BlogLabel, BlogCategories, scores, build_blog_reviews(scores),
                          build_blog_overview(parsed), avg,
                          build_summary(BlogLabel, avg, BlogCategories, scores), fetch_notes)

NoResult ==
    [content_type |-> "", keys |-> <<>>, scores |-> <<>>, reviews |-> <<>>,
     overview |-> <<>>, average |-> <<0, 1>>,
     summary |-> [tone |-> "", weakest |-> "", strongest |-> "", label |-> ""],
     notes |-> <<>>]

(***************************************************************************)
(* Inputs: elements, pages and the arguments of direct calls               *)
(***************************************************************************)
Text(chars) == [kind |-> "text", chars |-> chars]

Img(markup, src, alt, width, height, srcset) ==
    [kind |-> "img", markup |-> markup, src |-> src, alt |-> alt,
     width |-> width, height |-> height, srcset |-> srcset]

\* "ab cd"
TxtWords == Text(<<"a", "b", " ", "c", "d">>)

\* "#ab #ab #c #abcdefg_"
TxtTags == Text(<<"#", "a", "b", " ", "#", "a", "b", " ", "#", "c", " ",
                  "#", "a", "b", "c", "d", "e", "f", "g", "_">>)

\* "likes 0"
TxtLikes == Text(<<"l", "i", "k", "e", "s", " ", "0">>)

\* "like_count:100 comments 9"
TxtCounts == Text(<<"l", "i", "k", "e", "_", "c", "o", "u", "n", "t", ":", "1", "0", "0", " ",
                    "c", "o", "m", "m", "e", "n", "t", "s", " ", "9">>)

\* "reaction_count 2 commentcount 99": keys of the secondary lists only
TxtInternal ==
    Text(<<"r", "e", "a", "c", "t", "i", "o", "n", "_", "c", "o", "u", "n", "t", " ", "2", " ",
           "c", "o", "m", "m", "e", "n", "t", "c", "o", "u", "n", "t", " ", "9", "9">>)

\* "a!!! " + three jamo + " selfie"
TxtPunct == Text(<<"a", "!", "!", "!", " ", "kiyeok", "kiyeok", "kiyeok", " ",
                   "s", "e", "l", "f", "i", "e">>)

\* a post of seven sentences with words of every lexicon and, spelled with
\* backslashes, one date and one number of lines 522-523
TxtBlog ==
    Text(Rep(Rep(<<"a">>, 30) \o <<".", " ">>, 5)
         \o <<"CHEO", "EUM", " ", "JANG", "JEOM", " ", "CHUL", "CHEO", " ", "JEO", " ">>
         \o Rep(<<"b">>, 10)
         \o <<" ", "2", "0", "\\", "d", "d", ".", "\\", "\\", "d", ".">>)

\* 90 distinct two-letter hashtags: "#aa#ab...#ij"
TagLetters == <<"a", "b", "c", "d", "e", "f", "g", "h", "i", "j">>

ManyTagsCount == 90

TxtManyTags ==
    Text(AsSeq([k \in 1..(3 * ManyTagsCount) |->
             LET i == (k - 1) \div 3
             IN CASE k % 3 = 1 -> "#"
                  [] k % 3 = 2 -> TagLetters[(i \div 10) + 1]
                  [] OTHER     -> TagLetters[(i % 10) + 1]]))

ImgA == Img("escaped", <<"a">>, <<"x">>, <<"6", "0", "0">>, <<"6", "0", "0">>, <<>>)

\* alt "portrait", no dimensions, srcset "a 1x, c 2x, c 3x"
ImgB == Img("escaped", <<"b">>, <<"p", "o", "r", "t", "r", "a", "i", "t">>, <<>>, <<>>,
            <<"a", " ", "1", "x", ",", " ", "c", " ", "2", "x", ",", " ", "c", " ", "3", "x">>)

\* <img src="a" width="600" height="600" alt="x">
ImgHtml == Img("html", <<"a">>, <<"x">>, <<"6", "0", "0">>, <<"6", "0", "0">>, <<>>)

OgA == [kind |-> "og", content |-> <<"a">>]

OgD == [kind |-> "og", content |-> <<"d">>]

AnchorEsc == [kind |-> "a", markup |-> "escaped"]

AnchorHtml == [kind |-> "a", markup |-> "html"]

JsonObj(articleBody, caption, description, keywords) ==
    [articleBody |-> articleBody, caption |-> caption,
     description |-> description, keywords |-> keywords]

\* {"keywords":"#ab, c, zz top,ab"}
JsonKeywords ==
    [kind |-> "jsonld", valid |-> TRUE,
     raw |-> <<"{", Q, "k", "e", "y", "w", "o", "r", "d", "s", Q, ":", Q, "#", "a", "b", ",",
               " ", "c", ",", " ", "z", "z", " ", "t", "o", "p", ",", "a", "b", Q, "}">>,
     objs |-> <<JsonObj(<<>>, <<>>, <<>>,
                        <<"#", "a", "b", ",", " ", "c", ",", " ", "z", "z", " ", "t", "o", "p",
                          ",", "a", "b">>)>>]

\* {"articleBody":"x\\ssy"}: the JSON source doubles the backslash
JsonArticle ==
    [kind |-> "jsonld", valid |-> TRUE,
     raw |-> <<"{", Q, "a", "r", "t", "i", "c", "l", "e", "B", "o", "d", "y", Q, ":", Q,
               "x", "\\", "\\", "s", "s", "y", Q, "}">>,
     objs |-> <<JsonObj(<<"x", "\\", "s", "s", "y">>, <<>>, <<>>, <<>>)>>]

\* a block json.loads rejects
JsonBad == [kind |-> "jsonld", valid |-> FALSE, raw |-> <<"{">>, objs |-> <<>>]

RECURSIVE SeqsUpTo(_, _)
\* the sequences over S of length at most n
SeqsUpTo(S, n) ==
    IF n = 0 THEN {<<>>}
    ELSE LET shorter == SeqsUpTo(S, n - 1)
         IN shorter \cup {Append(q, x) : q \in shorter, x \in S}

PageElements ==
    {TxtTags, TxtLikes, TxtCounts, ImgA, ImgB, ImgHtml,
     OgA, AnchorEsc, JsonKeywords, JsonArticle}

MaxPageElems == 2

\* the <img> tag of the image-quality example, five times: as ordinary HTML
\* and spelled with the backslashes the patterns contain
FiveImgHtml == Rep(<<ImgHtml>>, 5)

FiveImgEscaped == Rep(<<ImgA>>, 5)

\* seven sized images with alt text: 1.0 + 1.4 + 1.5 + 1.5 before the clamp
SevenImgEscaped == Rep(<<ImgA>>, 7)

CuratedPages ==
    {FiveImgHtml, FiveImgEscaped, SevenImgEscaped, <<TxtBlog>>, <<TxtBlog, AnchorEsc, AnchorEsc>>,
     <<TxtManyTags>>, <<JsonBad>>, <<TxtWords>>, <<TxtPunct>>, <<OgD, OgA, OgD>>,
     <<AnchorHtml, AnchorEsc>>, <<TxtInternal>>, <<TxtLikes, TxtInternal>>}

\* the bodies a server may answer with (never empty)
Pages == (SeqsUpTo(PageElements, MaxPageElems) \ {<<>>}) \cup CuratedPages

ContentTypes == {"instagram", "blog", "", "youtube"}

(***************************************************************************)
(* fetch_html, one action per attempt, and evaluate                        *)
(***************************************************************************)
\* the header variants of the attempts list, in order
Attempts == <<"ko-KR", "en-US">>

FailNote(lib, idx, kind) == [lib |-> lib, idx |-> idx, kind |-> kind]

\* the last note of a fetch that failed altogether
TerminalNote == FailNote("fetch_html", 0, "collect_failed")

Init ==
    /\ has_requests \in BOOLEAN
    /\ pc = IF has_requests THEN "requests" ELSE "urllib"
    /\ attempt = 1
    /\ notes = <<>>
    /\ tried = <<>>
    /\ html_text = <<>>
    /\ content_type \in ContentTypes
    /\ result = NoResult
    /\ arg = <<>>
    /\ ret = <<>>

\* where the loop over the requests attempts goes after a failed attempt
AfterRequestsFailure ==
    IF attempt < Len(Attempts)
    THEN pc' = "requests" /\ attempt' = attempt + 1
    ELSE pc' = "urllib" /\ attempt' = 1

\* requests.get answered ok with a non-empty body: fetch_html returns it
RequestsSuccess ==
    /\ pc = "requests"
    /\ \E body \in Pages :
          /\ html_text' = body
          /\ pc' = "fetched"
    /\ tried' = Append(tried, <<"requests", Attempts[attempt]>>)
    /\ UNCHANGED <<attempt, notes, content_type, result, has_requests, arg, ret>>

\* requests.get answered with an error status or an empty body
RequestsHttpFailure ==
    /\ pc = "requests"
    /\ notes' = Append(notes, FailNote("requests", attempt, "http"))
    /\ tried' = Append(tried, <<"requests", Attempts[attempt]>>)
    /\ AfterRequestsFailure
    /\ UNCHANGED <<html_text, content_type, result, has_requests, arg, ret>>

\* requests.get raised
RequestsException ==
    /\ pc = "requests"
    /\ notes' = Append(notes, FailNote("requests", attempt, "exception"))
    /\ tried' = Append(tried, <<"requests", Attempts[attempt]>>)
    /\ AfterRequestsFailure
    /\ UNCHANGED <<html_text, content_type, result, has_requests, arg, ret>>

\* urlopen answered: fetch_html returns the decoded body, whatever it is
UrllibSuccess ==
    /\ pc = "urllib"
    /\ attempt <= Len(Attempts)
    /\ \E body \in Pages \cup {<<>>} :
          /\ html_text' = body
          /\ pc' = "fetched"
    /\ tried' = Append(tried, <<"urllib", Attempts[attempt]>>)
    /\ UNCHANGED <<attempt, notes, content_type, result, has_requests, arg, ret>>

\* variant: a failed urllib attempt that leaves no note
UrllibExceptionSilent ==
    /\ pc = "urllib"
    /\ attempt <= Len(Attempts)
    /\ tried' = Append(tried, <<"urllib", Attempts[attempt]>>)
    /\ attempt' = attempt + 1
    /\ UNCHANGED <<pc, notes, html_text, content_type, result, has_requests, arg, ret>>

\* urlopen, read or decode raised
UrllibException ==
    /\ pc = "urllib"
    /\ attempt <= Len(Attempts)
    /\ notes' = Append(notes, FailNote("urllib", attempt, "exception"))
    /\ tried' = Append(tried, <<"urllib", Attempts[attempt]>>)
    /\ attempt' = attempt + 1
    /\ UNCHANGED <<pc, html_text, content_type, result, has_requests, arg, ret>>

\* every attempt failed: the terminal note and the empty string
FetchGiveUp ==
    /\ pc = "urllib"
    /\ attempt > Len(Attempts)
    /\ notes' = Append(notes, TerminalNote)
    /\ html_text' = <<>>
    /\ pc' = "fetched"
    /\ UNCHANGED <<attempt, tried, content_type, result, has_requests, arg, ret>>

\* the rest of evaluate, from parse_common to the returned EvalResult
Evaluate ==
    /\ pc = "fetched"
    /\ result' = evaluate(content_type, html_text, notes)
    /\ pc' = "done"
    /\ UNCHANGED <<attempt, notes, html_text, tried, content_type, has_requests, arg, ret>>

Next ==
    \/ RequestsSuccess
    \/ RequestsHttpFailure
    \/ RequestsException
    \/ UrllibSuccess
    \/ UrllibException
    \/ FetchGiveUp
    \/ Evaluate

Spec == Init /\ [][Next]_vars

(***************************************************************************)
(* Direct calls of the pure functions                                      *)
(***************************************************************************)
MaxTextLen == 4

UnitChars == {"a", " ", ".", "?"}

UnitTexts == SeqsUpTo(UnitChars, MaxTextLen) \cup {TxtBlog.chars, TxtPunct.chars}

CountSamples == {NoneVal, 0, 1, 9, 99, 100, 316, 1000}

\* parsed images: with and without the 500x500 size, with and without alt
Image(width, height, alt) == [src |-> <<"a">>, alt |-> alt, width |-> width, height |-> height]

ImageKinds ==
    {Image(600, 600, <<"x">>), Image(600, 499, <<"x">>), Image(500, 500, <<>>),
     Image(NoneVal, NoneVal, <<>>)}

MaxImages == 4

ImageLists ==
    SeqsUpTo(ImageKinds, MaxImages)
    \cup {Rep(<<Image(600, 600, <<"x">>)>>, 10), Rep(<<Image(NoneVal, NoneVal, <<>>)>>, 12)}

MaxElems == 3

ImageDocs == SeqsUpTo({ImgA, ImgB, ImgHtml, OgA, OgD}, MaxElems)

\* scores and averages given to build_summary: low, middle and high scores,
\* and averages at and around the two thresholds 3.4 and 4.3
ScoreSamples == {<<1, 1>>, <<7, 2>>, <<5, 1>>}

SummaryAverages == {<<3, 1>>, <<17, 5>>, <<7, 2>>, <<4, 1>>, <<43, 10>>, <<9, 2>>}

UnitInit ==
    /\ pc = "call"
    /\ \/ \E t \in UnitTexts : arg = [fn |-> "score_blog_narrative", text |-> t]
       \/ \E l \in CountSamples, c \in CountSamples :
             arg = [fn |-> "score_insta_engagement", likes |-> l, comments |-> c]
       \/ \E imgs \in ImageLists : arg = [fn |-> "score_image_quality", images |-> imgs]
       \/ \E d \in ImageDocs : arg = [fn |-> "parse_images", doc |-> d]
       \/ \E d \in Pages \cup {<<>>} : arg = [fn |-> "parse_common", doc |-> d]
       \/ \E avg \in SummaryAverages, sc \in [SeqToSet(InstaCategories) -> ScoreSamples] :
             arg = [fn |-> "build_summary", label |-> InstaLabel, avg |-> avg,
                    keys |-> InstaCategories, scores |-> sc]
       \/ \E avg \in SummaryAverages, sc \in [SeqToSet(BlogCategories) -> ScoreSamples] :
             arg = [fn |-> "build_summary", label |-> BlogLabel, avg |-> avg,
                    keys |-> BlogCategories, scores |-> sc]
    /\ ret = <<>>
    /\ has_requests = FALSE
    /\ attempt = 1
    /\ notes = <<>>
    /\ tried = <<>>
    /\ html_text = <<>>
    /\ content_type = ""
    /\ result = NoResult

Return(value) ==
    /\ ret' = value
    /\ pc' = "returned"
    /\ UNCHANGED <<attempt, notes, html_text, tried, content_type, result, has_requests, arg>>

CallNarrative ==
    /\ pc = "call" /\ arg.fn = "score_blog_narrative"
    /\ Return([sentence_count |-> sentence_stats(arg.text)[1],
               score          |-> score_blog_narrative(arg.text)])

CallEngagement ==
    /\ pc = "call" /\ arg.fn = "score_insta_engagement"
    /\ Return([score   |-> score_insta_engagement(arg.likes, arg.comments),
               rounded |-> round_half(score_insta_engagement(arg.likes, arg.comments))])

CallImageQuality ==
    /\ pc = "call" /\ arg.fn = "score_image_quality"
    /\ Return([score |-> score_image_quality(arg.images)])

CallParseImages ==
    /\ pc = "call" /\ arg.fn = "parse_images"
    /\ Return([images |-> parse_images(arg.doc)])

CallParseCommon ==
    /\ pc = "call" /\ arg.fn = "parse_common"
    /\ Return(parse_common(arg.doc))

CallBuildSummary ==
    /\ pc = "call" /\ arg.fn = "build_summary"
    /\ Return(build_summary(arg.label, arg.avg, arg.keys, arg.scores))

UnitNext ==
    \/ CallNarrative
    \/ CallEngagement
    \/ CallImageQuality
    \/ CallParseImages
    \/ CallParseCommon
    \/ CallBuildSummary

SpecUnit == UnitInit /\ [][UnitNext]_vars

(***************************************************************************)
(* Properties of the report evaluate returns (specification Spec)          *)
(***************************************************************************)
\* the nine half-step values 1.0, 1.5, ..., 5.0
HalfGrid ==
    {<<1, 1>>, <<3, 2>>, <<2, 1>>, <<5, 2>>, <<3, 1>>, <<7, 2>>, <<4, 1>>, <<9, 2>>, <<5, 1>>}

\* C1: whatever the content-type tag and the fetched page, every category
\* score of the report evaluate returns is one of 1.0, 1.5, ..., 5.0.
C1_ScoresOnHalfGrid ==
    pc = "done" => \A c \in DOMAIN result.scores : result.scores[c] \in HalfGrid

\* a report with a score the clamp cut down from 5.4 to 5.0
C1_Witness ==
    /\ pc = "done"
    /\ html_text = SevenImgEscaped
    /\ \E c \in DOMAIN result.scores : result.scores[c] = <<5, 1>>

\* C2 (as amended): when the fetched HTML is empty, every category score of
\* the report is its scorer's fallback after round_half: 2.0 for each of the
\* five blog categories (narrative 1.8 and spelling 2.2 both become 2.0), and
\* 2.0, 2.5, 2.0, 3.0 for the social-feed categories.
C2_EmptyHtmlRoundedFallbacks ==
    (pc = "done" /\ html_text = <<>>) =>
        IF content_type = "instagram"
        THEN /\ result.scores["subject_quality"] = <<2, 1>>
             /\ result.scores["appearance"] = <<5, 2>>
             /\ result.scores["hashtag_rarity"] = <<2, 1>>
             /\ result.scores["engagement"] = <<3, 1>>
        ELSE /\ result.scores["image_quality"] = <<2, 1>>
             /\ result.scores["sincerity_objectivity"] = <<2, 1>>
             /\ result.scores["narrative"] = <<2, 1>>
             /\ result.scores["spelling"] = <<2, 1>>
             /\ result.scores["factuality"] = <<2, 1>>

\* a social-feed report made from an empty body
C2_Witness ==
    /\ pc = "done"
    /\ html_text = <<>>
    /\ content_type = "instagram"
    /\ result.scores["appearance"] = <<5, 2>>

\* C2 (as stated): when the fetched HTML is empty, the report's scores are
\* the fallback values themselves, narrative 1.8 and spelling 2.2 included.
C2_EmptyHtmlExactFallbacks ==
    (pc = "done" /\ html_text = <<>>) =>
        IF content_type = "instagram"
        THEN /\ result.scores["subject_quality"] = <<2, 1>>
             /\ result.scores["appearance"] = <<5, 2>>
             /\ result.scores["hashtag_rarity"] = <<2, 1>>
             /\ result.scores["engagement"] = <<3, 1>>
        ELSE /\ result.scores["image_quality"] = <<2, 1>>
             /\ result.scores["sincerity_objectivity"] = <<2, 1>>
             /\ result.scores["narrative"] = <<9, 5>>
             /\ result.scores["spelling"] = <<11, 5>>
             /\ result.scores["factuality"] = <<2, 1>>

\* the sum of the report's scores, and the distance of k/2 from their mean
\* in units of 1/(2 * ScoreSum[2] * n): |k * d * n - 2 * s| for the sum s/d
ScoreSum == RSum(AsSeq([i \in 1..Len(result.keys) |-> result.scores[result.keys[i]]]))

MeanGap(k) == Abs(k * ScoreSum[2] * Len(result.keys) - 2 * ScoreSum[1])

\* twice the report's average (a whole number when the average is on the grid)
DoubledAverage == (2 * result.average[1]) \div result.average[2]

\* C3: the report's average is round(2m)/2 for the mean m of the report's
\* own scores: a multiple of 1/2 whose double is a nearest integer to 2m,
\* and the even one of the two when 2m lies halfway between two integers.
C3_AverageIsHalfRoundedMean ==
    pc = "done" =>
        LET unit == ScoreSum[2] * Len(result.keys)
        IN /\ result.average[2] \in {1, 2}
           /\ 2 * MeanGap(DoubledAverage) <= unit
           /\ (2 * MeanGap(DoubledAverage) = unit) => (DoubledAverage % 2 = 0)

\* a report whose doubled mean is halfway between two integers
C3_Witness ==
    /\ pc = "done"
    /\ 2 * MeanGap(DoubledAverage) = ScoreSum[2] * Len(result.keys)

\* C6: the tag "instagram" selects the four social-feed categories and the
\* social-feed label, every other tag the five blog categories and the blog
\* label; each category occurs once, and scores and reviews have the same keys.
C6_RubricByTag ==
    pc = "done" =>
        /\ IF content_type = "instagram"
           THEN /\ DOMAIN result.scores =
                       {"subject_quality", "appearance", "hashtag_rarity", "engagement"}
                /\ result.content_type = "instagram_feed"
                /\ result.summary.label = "instagram_feed"
                /\ Len(result.keys) = 4
           ELSE /\ DOMAIN result.scores =
                       {"image_quality", "sincerity_objectivity", "narrative", "spelling",
                        "factuality"}
                /\ result.content_type = "naver_blog_posting"
                /\ result.summary.label = "naver_blog_posting"
                /\ Len(result.keys) = 5
        /\ SeqToSet(result.keys) = DOMAIN result.scores
        /\ DOMAIN result.reviews = DOMAIN result.scores

\* a report for a tag that is neither of the two known ones
C6_Witness ==
    /\ pc = "done"
    /\ content_type = "youtube"
    /\ html_text # <<>>
    /\ result.content_type = "naver_blog_posting"

\* C7: a fetch that yields the empty string and its notes never stops
\* evaluate: the report is complete and its notes are the fetch's notes,
\* unchanged and in order (so at least one when the fetch reported a failure).
C7_ReportAfterFetchFailure ==
    (pc = "done" /\ html_text = <<>>) =>
        /\ result.notes = notes
        /\ (notes # <<>>) => Len(result.notes) >= 1
        /\ DOMAIN result.scores # {}
        /\ DOMAIN result.reviews = DOMAIN result.scores
        /\ \A c \in DOMAIN result.reviews : result.reviews[c].label # ""
        /\ result.overview # <<>>
        /\ result.average \in HalfGrid
        /\ result.summary.tone # ""
        /\ result.summary.weakest \in DOMAIN result.scores
        /\ result.summary.strongest \in DOMAIN result.scores

\* a report made after every attempt failed: one note per attempt and the
\* terminal note
C7_Witness ==
    /\ pc = "done"
    /\ html_text = <<>>
    /\ Len(result.notes) = 5
    /\ result.notes[5] = TerminalNote

\* C9 (as stated, its example): a page of five <img> tags, each with a src,
\* width 600, height 600 and an alt text, gets the blog image-quality
\* score 5.0.
C9_FiveImgTagsScoreFive ==
    (pc = "done" /\ html_text = FiveImgHtml /\ content_type = "blog") =>
        result.scores["image_quality"] = <<5, 1>>

\* every attempt fetch_html can make, in the order the claim gives
AttemptOrder ==
    (IF has_requests THEN << <<"requests", "ko-KR">>, <<"requests", "en-US">> >> ELSE <<>>)
    \o << <<"urllib", "ko-KR">>, <<"urllib", "en-US">> >>

\* C11: fetch_html makes its attempts in order (both header variants with
\* requests when it is available, then both with urllib); every failed
\* attempt leaves exactly one note, in attempt order; the first successful
\* attempt ends the fetch with no later attempt; and when all attempts
\* failed the result is the empty string and the notes end with the terminal
\* collection-failed note.
C11_AttemptsInOrder ==
    /\ Len(tried) <= Len(AttemptOrder)
    /\ tried = SubSeq(AttemptOrder, 1, Len(tried))
    /\ \A i \in 1..Len(notes) :
          i <= Len(tried) =>
             /\ notes[i].lib = tried[i][1]
             /\ notes[i].idx = Cardinality({j \in 1..i : tried[j][1] = tried[i][1]})
    /\ pc \in {"requests", "urllib"} => (Len(notes) = Len(tried) /\ html_text = <<>>)
    /\ pc \in {"fetched", "done"} =>
          \/ Len(notes) = Len(tried) - 1
          \/ /\ tried = AttemptOrder
             /\ Len(notes) = Len(tried) + 1
             /\ notes[Len(notes)] = TerminalNote
             /\ html_text = <<>>

\* both requests attempts failed and the first urllib attempt was answered
C11_Witness ==
    /\ pc = "fetched"
    /\ has_requests
    /\ Len(tried) = 3
    /\ Len(notes) = 2
    /\ html_text # <<>>

\* C15 (as stated): whenever fetch_html returns the empty string, its notes
\* are not empty and end with the terminal collection-failed note, also
\* after a urllib response with an empty body.
C15_EmptyHtmlHasTerminalNote ==
    (pc \in {"fetched", "done"} /\ html_text = <<>>) =>
        (notes # <<>> /\ notes[Len(notes)] = TerminalNote)

(***************************************************************************)
(* Properties of the functions called directly (specification SpecUnit)    *)
(***************************************************************************)
Returned(fn) == pc = "returned" /\ arg.fn = fn

\* C4: the hashtags parse_common returns (text tokens merged with JSON-LD
\* keywords) are at most 80, pairwise different, and each at least 2 long.
C4_HashtagsCappedDistinctLong ==
    Returned("parse_common") =>
        /\ Len(ret.hashtags) <= 80
        /\ \A i, j \in 1..Len(ret.hashtags) : i # j => ret.hashtags[i] # ret.hashtags[j]
        /\ \A i \in 1..Len(ret.hashtags) : Len(ret.hashtags[i]) >= 2

\* more distinct hashtags in the text than the cap lets through
C4_Witness ==
    /\ Returned("parse_common")
    /\ arg.doc = <<TxtManyTags>>
    /\ Len(parse_hashtags(arg.doc[1].chars)) > 80
    /\ Len(ret.hashtags) = 80

\* C5 (as stated): the images parse_images returns have pairwise distinct
\* src values, whatever the order of <img> tags, srcset candidates and
\* og:image tags in the document.
C5_ImageSrcsDistinct ==
    Returned("parse_images") =>
        \A i, j \in 1..Len(ret.images) : i # j => ret.images[i].src # ret.images[j].src

\* the text has none of ".", "!", "?"
NoDelimiter(text) == \A i \in 1..Len(text) : text[i] \notin {".", "!", "?"}

\* len(text.strip())
TrimmedLen(text) ==
    LET solid == {i \in 1..Len(text) : text[i] \notin SpaceChars}
    IN IF solid = {} THEN 0
       ELSE (CHOOSE i \in solid : \A j \in solid : j <= i)
            - (CHOOSE i \in solid : \A j \in solid : i <= j) + 1

\* C8 (as amended): a text without ".", "!" and "?" has zero sentences and
\* the narrative score 1.8 when fewer than 2 characters remain after
\* trimming; otherwise it is one sentence and the score is not the fallback.
C8_NoDelimiterText ==
    (Returned("score_blog_narrative") /\ NoDelimiter(arg.text)) =>
        IF TrimmedLen(arg.text) < 2
        THEN ret.sentence_count = 0 /\ ret.score = <<9, 5>>
        ELSE ret.sentence_count = 1 /\ ret.score # <<9, 5>>

\* a single character between spaces
C8_Witness ==
    /\ Returned("score_blog_narrative")
    /\ arg.text = <<" ", "a", " ">>
    /\ ret.sentence_count = 0
    /\ ret.score = <<9, 5>>

\* C8 (as stated): every text without ".", "!" and "?" has zero sentences
\* and the narrative score 1.8.
C8_NoDelimiterZeroSentences ==
    (Returned("score_blog_narrative") /\ NoDelimiter(arg.text)) =>
        ret.sentence_count = 0 /\ ret.score = <<9, 5>>

\* the closed form of C9 for a list of images: 2.0 for the empty list, else
\* clamp(1.0 + min(2.0, n/5) + min(1.5, 1.5 s/n) + min(1.5, 1.5 a/n)), with
\* the clamp and the minima written out for n >= 1, s <= n, a <= n
ImageQualityClosedForm ==
    Returned("score_image_quality") =>
        LET n == Len(arg.images)
            s == Cardinality({i \in 1..n : /\ arg.images[i].width # NoneVal
                                          /\ arg.images[i].height # NoneVal
                                          /\ arg.images[i].width >= 500
                                          /\ arg.images[i].height >= 500})
            a == Cardinality({i \in 1..n : arg.images[i].alt # <<>>})
            \* ten times the sum, times n
            tenfold == 10 * n + (IF n >= 10 THEN 20 * n ELSE 2 * n * n) + 15 * s + 15 * a
        IN IF n = 0 THEN ret.score = <<2, 1>>
           ELSE IF tenfold >= 50 * n THEN ret.score = <<5, 1>>
           ELSE ret.score[1] * 10 * n = tenfold * ret.score[2]

C12_HashtagsAreTokens ==
    Returned("parse_common") =>
        \A i \in 1..Len(ret.hashtags) :
            /\ Len(ret.hashtags[i]) >= 2
            /\ Len(ret.hashtags[i]) <= 30
            /\ \A k \in 1..Len(ret.hashtags[i]) : ret.hashtags[i][k] \in WordChars

\* the number matched for the earliest key of the list that matches anywhere
\* in the raw HTML, NoneVal when no key of the list matches
FirstKeyMatch(raw, keys) ==
    LET hit == {k \in 1..Len(keys) : CountSearch(raw, keys[k]) # NoneVal}
    IN IF hit = {} THEN NoneVal
       ELSE CountSearch(raw, keys[CHOOSE k \in hit : \A m \in hit : k <= m])

\* the primary list first, the secondary list only when it yields nothing
Resolved(raw, primary, secondary) ==
    IF FirstKeyMatch(raw, primary) # NoneVal THEN FirstKeyMatch(raw, primary)
    ELSE FirstKeyMatch(raw, secondary)

\* C13: likes and comments are each the number matched for the earliest key,
\* in list order, of the primary list that matches anywhere in the raw HTML;
\* the secondary list decides only when no primary key matches; the result
\* is null exactly when no key of either list matches, and otherwise an
\* integer in 0..999999999.
C13_CountsFirstMatchPolicy ==
    Returned("parse_common") =>
        LET raw == RawHtml(arg.doc)
            matched(keys) == \E k \in 1..Len(keys) : CountSearch(raw, keys[k]) # NoneVal
        IN /\ ret.likes = Resolved(raw, LikeKeys, LikeKeys2)
           /\ ret.comments = Resolved(raw, CommentKeys, CommentKeys2)
           /\ (ret.likes = NoneVal) <=> ~(matched(LikeKeys) \/ matched(LikeKeys2))
           /\ (ret.comments = NoneVal) <=> ~(matched(CommentKeys) \/ matched(CommentKeys2))
           /\ ret.likes # NoneVal => ret.likes \in 0..999999999
           /\ ret.comments # NoneVal => ret.comments \in 0..999999999

\* "likes 0" stands before "like_count:100" in the page, and like_count, the
\* earlier key of the list, decides
C13_Witness ==
    /\ Returned("parse_common")
    /\ arg.doc = <<TxtLikes, TxtCounts>>
    /\ ret.likes = 100
    /\ ret.comments = 9

\* x >= n/d for a score or average x
AtLeast(x, n, d) == x[1] * d >= n * x[2]

\* C14: build_summary names as strongest a category no other category
\* outscores and as weakest one no other category scores below, each the
\* first such category in the rubric's order (the same first category for
\* both when all scores are equal); the tone is the top band iff
\* average >= 4.3, the middle band iff 3.4 <= average < 4.3 and the bottom
\* band otherwise; and the summary carries the content-type label.
C14_SummaryNamesExtremes ==
    Returned("build_summary") =>
        LET keys   == arg.keys
            sc(i)  == arg.scores[keys[i]]
            hi     == CHOOSE i \in 1..Len(keys) : keys[i] = ret.strongest
            lo     == CHOOSE i \in 1..Len(keys) : keys[i] = ret.weakest
            geq(i, j) == sc(i)[1] * sc(j)[2] >= sc(j)[1] * sc(i)[2]
        IN /\ ret.strongest \in SeqToSet(keys)
           /\ ret.weakest \in SeqToSet(keys)
           /\ \A j \in 1..Len(keys) : geq(hi, j) /\ geq(j, lo)
           /\ \A j \in 1..(hi - 1) : ~geq(j, hi)
           /\ \A j \in 1..(lo - 1) : ~geq(lo, j)
           /\ (\A i, j \in 1..Len(keys) : sc(i) = sc(j)) => (hi = 1 /\ lo = 1)
           /\ (ret.tone = "high") <=> AtLeast(arg.avg, 43, 10)
           /\ (ret.tone = "stable") <=> (AtLeast(arg.avg, 34, 10) /\ ~AtLeast(arg.avg, 43, 10))
           /\ (ret.tone = "needs_work") <=> ~AtLeast(arg.avg, 34, 10)
           /\ ret.label = arg.label

\* five equal scores: the first blog category is named as strongest and as
\* weakest, with the average exactly on the upper threshold
C14_Witness ==
    /\ Returned("build_summary")
    /\ arg.keys = BlogCategories
    /\ \A c \in DOMAIN arg.scores : arg.scores[c] = <<5, 1>>
    /\ arg.avg = <<43, 10>>
    /\ ret.strongest = "image_quality"
    /\ ret.weakest = "image_quality"
    /\ ret.tone = "high"

====
